---- MODULE Spec2Model ----
(***************************************************************************)
(* A model of the ausdomainledger web API (src/api.go, the revision that   *)
(* starts at line 189): the keyset-paginated /api/v1/query handler, the    *)
(* per-IP admission control in front of it, and the polled statistics.     *)
(*                                                                         *)
(* Strings are tuples of one-character strings.  Go's 64-bit integers are  *)
(* scaled to WordBits bits, keeping ^uint64(0) > MaxInt > every row id.    *)
(***************************************************************************)
EXTENDS Integers, Sequences, FiniteSets, TLC

\* ------------------------------------------------------------------ bounds

\* Row ids of the store range over 0..MaxId (Id is a uint64).
MaxId == 2
\* first_seen of a row, and the from_time a caller sends, range over 0..MaxTime.
MaxTime == 2
\* last_seen - first_seen of a row ranges over 0..MaxGap.
MaxGap == 1
\* The table holds at most MaxRows rows.
MaxRows == 2
\* Width of the scaled machine word (wide enough for the limit of 1000).
WordBits == 12
\* A probing caller pads its filter with up to MaxPad blanks on either side.
MaxPad == 2
\* Up to MaxReqs /query requests are in checkLimit at the same time.
MaxReqs == 2
\* The table's two counts range over 0..MaxCount.
MaxCount == 2
\* pollEtldCount is followed through MaxTicks passes of its loop.
MaxTicks == 3
\* Requests handed on with throttling disabled are counted up to MaxPassed.
MaxPassed == 6

\* ------------------------------------------------------- program constants

\* api.go:309-310  if limit == 0 || limit > 1000 { limit = 1000 }
MaxLimit == 1000
\* api.go:313  len(qs) > 255
MaxQueryLen == 255
\* api.go:316  len(qs) < 3
MinQueryLen == 3

\* api.go:355  throttler.Halt(ip, 1, 5)
HaltCost == 1
HaltRate == 5
\* api.go:250  tb.NewThrottler(time.Second), in milliseconds
FillFreqMs == 1000

\* ^uint64(0), api.go:338, and the largest int, the range of strconv.Atoi.
MaxUint == 2^WordBits - 1
MaxInt == 2^(WordBits - 1) - 1
MinInt == -(2^(WordBits - 1))

VARIABLES
    store,      \* the rows of table domains (owned by the external scanner)
    req,        \* the parameters of the request being answered, as parsed
    sql,        \* the store query issued for it, or NoSql
    resp,       \* the HTTP response to it, or NoResp
    prev,       \* the cursor the caller continued from, or NoCursor
    received    \* the ids of the rows a caller paging to the end has been sent

varsQ == <<store, req, sql, resp, prev, received>>

VARIABLES
    throttleDisabled,   \* LEDGER_WEB_NOTHROTTLE is set
    buckets,            \* the keys (IPs) of the throttler's buckets
    tokens,             \* the tokens of each IP's bucket
    pc,                 \* where each /query request is in checkLimit
    rip,                \* the IP each request comes from
    path,               \* the route each request asks for
    paid,               \* the request has taken its token from the bucket
    seen,               \* the tokens a request loaded in Bucket.Take
    sinceFill,          \* per IP: requests passed on to queryHandler since the last fill
    throttledAt,        \* per IP: sinceFill when a request was last answered 429, or -1
    filled,             \* per IP: the bucket has been filled since it was made
    drainedWait         \* per IP: the last fill found the bucket empty and no request at it

varsT == <<throttleDisabled, buckets, tokens, pc, rip, path, paid, seen, sinceFill,
           throttledAt, filled, drainedWait>>

VARIABLES
    etldCount,      \* the global etldCount
    domainCount,    \* the global domainCount
    pollPc,         \* where pollEtldCount is in its loop
    dbEtlds,        \* what SELECT COUNT(*) FROM (SELECT DISTINCT etld ...) now gives
    dbDomains,      \* what SELECT COUNT(*) FROM domains now gives
    tick,           \* the number of the loop's current pass
    etldTick,       \* the pass that last wrote etldCount (0: never written)
    domainTick,     \* the pass that last wrote domainCount (0: never written)
    everFailed,     \* some db.Get of the loop has failed
    tickFailed,     \* a db.Get of the current pass has failed
    lastGood,       \* <<domainCount, etldCount>> after the last pass without failure
    rdPc,           \* where statsHandler is in building its response
    rdFirst,        \* the count it read first, with the pass that wrote it
    rdAt,           \* <<tick, pollPc>> when it read that count
    statsResp,      \* the last statsResponse written, or NoStats
    storeUp         \* the store answers (outages are followed where recovery matters)

varsS == <<etldCount, domainCount, pollPc, dbEtlds, dbDomains, tick, etldTick,
           domainTick, everFailed, tickFailed, lastGood, rdPc, rdFirst, rdAt,
           statsResp, storeUp>>

vars == <<varsQ, varsT, varsS>>

IPs == {"10.0.0.1", "10.0.0.2"}
NoIP == ""
Reqs == 1..MaxReqs

\* checkLimit before any request: no bucket, nothing in flight.
LimitAtRest ==
    /\ buckets = {}
    /\ tokens = [i \in IPs |-> 0]
    /\ pc = [r \in Reqs |-> "idle"]
    /\ rip = [r \in Reqs |-> NoIP]
    /\ path = [r \in Reqs |-> ""]
    /\ paid = [r \in Reqs |-> FALSE]
    /\ seen = [r \in Reqs |-> 0]
    /\ sinceFill = [i \in IPs |-> 0]
    /\ throttledAt = [i \in IPs |-> -1]
    /\ filled = [i \in IPs |-> FALSE]
    /\ drainedWait = [i \in IPs |-> FALSE]

NoStats == [domains |-> -1, etlds |-> -1, domainTick |-> 0, etldTick |-> 0,
            quiet |-> FALSE, failedPass |-> FALSE, good |-> <<0, 0>>]

\* The globals as declared, api.go:219-220, and pollEtldCount at its first db.Get.
StatsAtRest ==
    /\ etldCount = 0 /\ domainCount = 0
    /\ pollPc = "etld" /\ tick = 1
    /\ etldTick = 0 /\ domainTick = 0
    /\ everFailed = FALSE /\ tickFailed = FALSE
    /\ lastGood = <<0, 0>>
    /\ rdPc = "idle" /\ rdFirst = <<0, 0>> /\ rdAt = <<0, "">>
    /\ statsResp = NoStats
    /\ storeUp = TRUE

\* ----------------------------------------------------------------- strings

Space == " "

\* The string of n copies of character c.
Rep(c, n) == [i \in 1..n |-> c]

\* strings.TrimSpace: the string from its first to its last character that is
\* no white space.
TrimSpace(s) ==
    LET ink == {i \in 1..Len(s) : s[i] # Space}
    IN  IF ink = {} THEN <<>>
        ELSE SubSeq(s, CHOOSE i \in ink : \A j \in 1..(i - 1) : s[j] = Space,
                       CHOOSE i \in ink : \A j \in (i + 1)..Len(s) : s[j] = Space)

LowerChar(c) ==
    CASE c = "A" -> "a"
      [] c = "B" -> "b"
      [] c = "C" -> "c"
      [] c = "D" -> "d"
      [] OTHER -> c

\* strings.ToLower, on the ASCII letters of the model's alphabet.
ToLower(s) == [i \in 1..Len(s) |-> LowerChar(s[i])]

RECURSIVE Like(_, _)
\* SQL's  s LIKE p : % matches any run of characters, _ any one character,
\* every other character itself; the whole of s must be matched.
Like(s, p) ==
    IF p = <<>> THEN s = <<>>
    ELSE IF Head(p) = "%"
         THEN Like(s, Tail(p)) \/ (s # <<>> /\ Like(Tail(s), p))
         ELSE /\ s # <<>>
              /\ (Head(p) = "_" \/ Head(p) = Head(s))
              /\ Like(Tail(s), Tail(p))

\* A URL parameter holding a decimal number n is <<n>>; an absent parameter, or
\* one that is no number, is <<>>.
Absent == <<>>
Num(n) == <<n>>

\* strconv.Atoi of a parameter: 0 for an absent one or one that is no number,
\* the nearest int for a number outside the int range; the callers drop the
\* error (api.go:294-296).
Atoi(p) ==
    IF p = Absent THEN 0
    ELSE IF p[1] > MaxInt THEN MaxInt
    ELSE IF p[1] < MinInt THEN MinInt
    ELSE p[1]

\* ------------------------------------------------------------------- store

abc == <<"a", "b", "c">>
abd == <<"a", "b", "d">>
Domains == {abc, abd}

\* queryResult: one row of table domains (etld plays no part in a query).
Row(i, b) ==
    [id |-> i, firstSeen |-> b.firstSeen, lastSeen |-> b.firstSeen + b.gap,
     domain |-> b.domain]

RowBodies == [firstSeen : 0..MaxTime, gap : 0..MaxGap, domain : Domains]

\* The contents the table can have with at most n rows: id is its key.
Stores(n) ==
    UNION { { { Row(i, f[i]) : i \in ids } : f \in [ids -> RowBodies] } :
            ids \in { x \in SUBSET (0..MaxId) : Cardinality(x) <= n } }

\* ORDER BY first_seen DESC, last_seen DESC, id DESC: a comes before b.
RowBeforeAscId(a, b) ==
    \/ a.firstSeen > b.firstSeen
    \/ a.firstSeen = b.firstSeen /\ a.lastSeen > b.lastSeen
    \/ a.firstSeen = b.firstSeen /\ a.lastSeen = b.lastSeen /\ a.id < b.id

RowBefore(a, b) ==
    \/ a.firstSeen > b.firstSeen
    \/ a.firstSeen = b.firstSeen /\ a.lastSeen > b.lastSeen
    \/ a.firstSeen = b.firstSeen /\ a.lastSeen = b.lastSeen /\ a.id > b.id

RECURSIVE OrderBy(_)
OrderBy(rows) ==
    IF rows = {} THEN <<>>
    ELSE LET first == CHOOSE r \in rows : \A o \in rows \ {r} : RowBefore(r, o)
         IN  <<first>> \o OrderBy(rows \ {first})

\* LIMIT n of a non-negative n.
LimitTo(seq, n) == IF Len(seq) <= n THEN seq ELSE SubSeq(seq, 1, n)

\* The WHERE clauses of the three statements of query(), api.go:326-330.
WhereBothLoose(r, qs, fromTime, lastId) ==
    Like(r.domain, qs) /\ r.firstSeen <= fromTime /\ r.id <= lastId

WhereBoth(r, qs, fromTime, lastId) ==
    Like(r.domain, qs) /\ r.firstSeen <= fromTime /\ r.id < lastId

WhereTime(r, qs, fromTime) ==
    Like(r.domain, qs) /\ r.firstSeen <= fromTime

\* A variant of WhereNewest without the filter.
WhereNewestAny(r, qs) == TRUE

WhereNewest(r, qs) == Like(r.domain, qs)

\* The statement query() chooses for a cursor, api.go:325-331.
Shape(fromTime, lastId) ==
    IF fromTime > 0 /\ lastId > 0 THEN "both"
    ELSE IF lastId = 0 /\ fromTime > 0 THEN "time"
    ELSE "newest"

\* The rows the chosen statement selects from table st, before ORDER and LIMIT.
Selected(st, shape, qs, fromTime, lastId) ==
    CASE shape = "both" -> { r \in st : WhereBoth(r, qs, fromTime, lastId) }
      [] shape = "time" -> { r \in st : WhereTime(r, qs, fromTime) }
      [] OTHER -> { r \in st : WhereNewest(r, qs) }

\* db.SelectContext: dbErr is the failure of the store or of the request's
\* context ("" for none); the store itself refuses a negative LIMIT.
SelectContext(st, shape, qs, fromTime, lastId, limit, dbErr) ==
    IF dbErr # "" THEN [err |-> dbErr, out |-> <<>>]
    ELSE IF limit < 0 THEN [err |-> "LIMIT must not be negative", out |-> <<>>]
    ELSE [err |-> "",
          out |-> LimitTo(OrderBy(Selected(st, shape, qs, fromTime, lastId)), limit)]

\* The loop of api.go:338-343 over the rows not yet visited.
RECURSIVE LowestFrom(_, _)
LowestFrom(out, lowestId) ==
    IF out = <<>> THEN lowestId
    ELSE LowestFrom(Tail(out), IF Head(out).id < lowestId THEN Head(out).id ELSE lowestId)

\* A variant of LowestId that starts the scan at 0.
LowestIdFromZero(out) == LowestFrom(out, 0)

LowestId(out) == LowestFrom(out, MaxUint)

\* api.go:309-311
EffectiveLimit(limit) == IF limit = 0 \/ limit > MaxLimit THEN MaxLimit ELSE limit

NoSql == [shape |-> "none", qs |-> <<>>, limit |-> 0, err |-> ""]
NoResp == [code |-> 0, body |-> "", results |-> <<>>, last |-> 0]
NoReq == [query |-> <<>>, fromTime |-> 0, lastId |-> 0, limit |-> 0]
NoCursor == [last |-> -1, minFirst |-> FALSE, lastFirst |-> FALSE]

\* A variant of QueryFailed that hands the store's error on.
QueryFailedVerbose(err) == err

\* api.go:333-336: the store's error is logged and errors.New("Query failed :(")
\* is returned in its place.
QueryFailed(err) == "Query failed :("

\* query(), api.go:308-346: the error ("" for nil), the queryResponse and the
\* statement that went to the store, with the error the store answered.
query(st, qs, fromTime, lastId, limit, dbErr) ==
    LET lim == EffectiveLimit(limit)
    IN  IF Len(qs) > MaxQueryLen
        THEN [err |-> "Query too long", results |-> <<>>, last |-> 0, sql |-> NoSql]
        ELSE IF Len(qs) < MinQueryLen
        THEN [err |-> "Query must be at least 3 characters",
              results |-> <<>>, last |-> 0, sql |-> NoSql]
        ELSE LET q == ToLower(TrimSpace(qs))
                 shape == Shape(fromTime, lastId)
                 sel == SelectContext(st, shape, q, fromTime, lastId, lim, dbErr)
                 stmt == [shape |-> shape, qs |-> q, limit |-> lim, err |-> sel.err]
             IN  IF sel.err # ""
                 THEN [err |-> QueryFailed(sel.err), results |-> <<>>, last |-> 0,
                       sql |-> stmt]
                 ELSE [err |-> "", results |-> sel.out, last |-> LowestId(sel.out),
                       sql |-> stmt]

\* queryHandler, api.go:288-306, for the parameters query, from_time, last_id
\* and limit of the URL and the outcome dbErr of the store.
queryHandler(pQuery, pFrom, pLast, pLimit, dbErr) ==
    LET limit == Atoi(pLimit)
        off == Atoi(pFrom)
        last == Atoi(pLast)
        r == query(store, pQuery, off, last, limit, dbErr)
    IN  /\ req' = [query |-> pQuery, fromTime |-> off, lastId |-> last, limit |-> limit]
        /\ sql' = r.sql
        /\ resp' = IF r.err # ""
                   THEN [code |-> 400, body |-> r.err, results |-> <<>>, last |-> 0]
                   ELSE [code |-> 200, body |-> "json", results |-> r.results,
                         last |-> r.last]
        /\ UNCHANGED store

\* ------------------------------------------------- the callers of /query

ABC == <<"A", "B", "C">>
\* The filters of a paging caller: one domain, behind a blank and in upper
\* case, and a pattern that matches every domain.
PageFilters == {<<Space>> \o ABC, <<"a", "b", "%">>}
PageTimes == {Num(t) : t \in 0..MaxTime}
PageIds == {Num(-1), Num(MaxUint)} \cup {Num(i) : i \in 0..MaxId}
PageLimits == {Absent, Num(1), Num(2)}
\* The outcomes of the store: none, the request's 5 s timeout (api.go:289), a
\* failure of the connection.
DbErrs == {"", "context deadline exceeded", "pq: connection refused"}

\* The row of a page with the lowest id, and the last row of a page.
MinIdRow(results) ==
    CHOOSE r \in {results[i] : i \in 1..Len(results)} :
        \A i \in 1..Len(results) : r.id <= results[i].id

LastRow(results) == results[Len(results)]

\* A request with any cursor, from a caller that holds no page.
FirstPage ==
    /\ resp = NoResp
    /\ \E q \in PageFilters, f \in PageTimes, l \in PageIds, n \in PageLimits,
          e \in DbErrs : queryHandler(q, f, l, n, e)
    /\ prev' = NoCursor /\ UNCHANGED received
    /\ UNCHANGED <<varsT, varsS>>

\* The caller asks for the page after the one it holds: the same filter,
\* last_id the page's last, from_time the first_seen of the page's row of
\* lowest id or of its last row.
NextPage ==
    /\ resp.code = 200
    /\ resp.results # <<>>
    /\ \E f \in {MinIdRow(resp.results).firstSeen, LastRow(resp.results).firstSeen},
          n \in PageLimits, e \in DbErrs :
           /\ queryHandler(req.query, Num(f), Num(resp.last), n, e)
           /\ prev' = [last |-> resp.last,
                       minFirst |-> f = MinIdRow(resp.results).firstSeen,
                       lastFirst |-> f = LastRow(resp.results).firstSeen]
    /\ UNCHANGED <<received, varsT, varsS>>

\* The caller drops the page it holds.
Done ==
    /\ resp # NoResp
    /\ req' = NoReq /\ sql' = NoSql /\ resp' = NoResp /\ prev' = NoCursor
    /\ received' = {}
    /\ UNCHANGED <<store, varsT, varsS>>

InitQuery ==
    /\ store \in Stores(MaxRows)
    /\ req = NoReq /\ sql = NoSql /\ resp = NoResp /\ prev = NoCursor
    /\ received = {}
    /\ throttleDisabled = FALSE /\ LimitAtRest
    /\ StatsAtRest /\ dbEtlds = 0 /\ dbDomains = 0

NextQuery == FirstPage \/ NextPage \/ Done

SpecQuery == InitQuery /\ [][NextQuery]_vars

\* ------------------------------------- the caller paging to the end

\* The ids of the rows of a page.
IdsOf(results) == {results[i].id : i \in 1..Len(results)}

\* The caller asks for the first page: no cursor.
Begin ==
    /\ resp = NoResp
    /\ \E q \in PageFilters, n \in PageLimits, e \in DbErrs :
           queryHandler(q, Absent, Absent, n, e)
    /\ received' = IdsOf(resp'.results)
    /\ prev' = NoCursor
    /\ UNCHANGED <<varsT, varsS>>

\* The caller asks for the page after the one it holds: the same filter,
\* last_id the page's last, from_time the first_seen of the page's last row.
Follow ==
    /\ resp.code = 200
    /\ resp.results # <<>>
    /\ \E n \in PageLimits, e \in DbErrs :
           queryHandler(req.query, Num(LastRow(resp.results).firstSeen),
                        Num(resp.last), n, e)
    /\ received' = received \cup IdsOf(resp'.results)
    /\ prev' = [last |-> resp.last,
                minFirst |-> LastRow(resp.results).firstSeen
                                = MinIdRow(resp.results).firstSeen,
                lastFirst |-> TRUE]
    /\ UNCHANGED <<varsT, varsS>>

InitPaging == InitQuery

NextPaging == Begin \/ Follow \/ Done

SpecPaging == InitPaging /\ [][NextPaging]_vars

\* ------------------------------------------- the callers probing /query

\* Filters around the two length checks: short and long runs of letters, with
\* blanks before, inside and after.
ProbeCores ==
    {<<>>, <<"a">>, <<"a", "b">>, abc, ABC, <<"a", Space, "b">>}
        \cup {Rep("a", n) : n \in (MaxQueryLen - 2)..(MaxQueryLen + 1)}
ProbeFilters ==
    {Rep(Space, l) \o c \o Rep(Space, t) : l \in 0..MaxPad, t \in 0..MaxPad, c \in ProbeCores}
ProbeLimits ==
    {Absent, Num(-1), Num(0), Num(1), Num(2), Num(MaxLimit), Num(MaxLimit + 1),
     Num(MaxUint)}

\* A request without cursor, of any filter and page size.
Probe ==
    /\ resp = NoResp
    /\ \E q \in ProbeFilters, n \in ProbeLimits, e \in DbErrs :
           queryHandler(q, Absent, Absent, n, e)
    /\ prev' = NoCursor /\ UNCHANGED received
    /\ UNCHANGED <<varsT, varsS>>

InitValidate ==
    /\ store \in Stores(1)
    /\ req = NoReq /\ sql = NoSql /\ resp = NoResp /\ prev = NoCursor
    /\ received = {}
    /\ throttleDisabled = FALSE /\ LimitAtRest
    /\ StatsAtRest /\ dbEtlds = 0 /\ dbDomains = 0

NextValidate == Probe \/ Done

SpecValidate == InitValidate /\ [][NextValidate]_vars

\* ------------------------------------------------------------- checkLimit

\* tb.Throttler.Bucket: the tokens added to a bucket of the given rate at each
\* tick of the throttler, floor(.5 + rate * freq.Seconds()).
FillInc(rate) == (2 * rate * FillFreqMs + 1000) \div 2000

\* tb.Bucket.Put(n) on a bucket of t tokens: tokens are added up to capacity.
Put(t, n, capacity) ==
    IF t = capacity THEN t
    ELSE IF n <= capacity - t THEN t + n
    ELSE capacity

\* What tb.Bucket.Take(n) sets out to do on loading t tokens: the tokens it
\* will have taken and the tokens it leaves.
TakePlan(t, n) ==
    IF t = 0 THEN [got |-> 0, left |-> 0]
    ELSE IF n <= t THEN [got |-> n, left |-> t - n]
    ELSE [got |-> t, left |-> 0]

\* A variant of Swaps that stores without comparing.
SwapsBlindly(loaded, current) == TRUE

\* atomic.CompareAndSwapInt64 succeeds when the bucket still holds what was loaded.
Swaps(loaded, current) == loaded = current

\* A variant of Passes that goes on to the next handler whatever Halt says.
PassesAlways(halted) == TRUE

\* checkLimit, api.go:355-359: the request goes on to queryHandler unless
\* Halt returned true.
Passes(halted) == ~halted

\* r.RemoteAddr of a request from ip: "ip:port".
ClientPort == "50000"
RemoteAddr(ip) == <<ip, ClientPort>>

\* A variant of SplitHostPort that yields the one address of a proxy that
\* every request comes through.
SplitHostPortOfProxy(addr) == "10.0.0.1"

\* net.SplitHostPort(r.RemoteAddr), api.go:354: the host of "host:port".
SplitHostPort(addr) == addr[1]

\* The key of the bucket of request r, api.go:354-355.
Key(r) == SplitHostPort(RemoteAddr(rip[r]))

\* A variant of Guarded with checkLimit in front of every route.
GuardedAll(p) == TRUE

\* The routes of api.go:268-275: checkLimit is used by the group that holds
\* /query, and /stats is outside that group.
Guarded(p) == p = "/query"

\* A request from ip for route p is dispatched: to checkLimit if the route is
\* behind it, else to the route's handler.
Arrive(r, ip, p) ==
    /\ pc[r] = "idle"
    /\ pc' = [pc EXCEPT ![r] = IF Guarded(p) THEN "check" ELSE "next"]
    /\ rip' = [rip EXCEPT ![r] = ip]
    /\ path' = [path EXCEPT ![r] = p]
    /\ UNCHANGED <<throttleDisabled, buckets, tokens, paid, seen, sinceFill,
                   throttledAt, filled, drainedWait, varsQ, varsS>>

\* api.go:350-353: with throttling disabled the request goes straight on.
Bypass(r) ==
    /\ pc[r] = "check"
    /\ throttleDisabled
    /\ pc' = [pc EXCEPT ![r] = "next"]
    /\ sinceFill' = [sinceFill EXCEPT ![rip[r]] = IF @ < MaxPassed THEN @ + 1 ELSE @]
    /\ UNCHANGED <<throttleDisabled, path, paid, buckets, tokens, rip, seen,
                   throttledAt, filled, drainedWait, varsQ, varsS>>

\* api.go:354-355, Halt's t.Bucket(key, rate): under the throttler's lock the
\* bucket of the IP is looked up, and made full if there is none.
HaltBucket(r) ==
    /\ pc[r] = "check"
    /\ ~throttleDisabled
    /\ buckets' = buckets \cup {Key(r)}
    /\ tokens' = IF Key(r) \in buckets THEN tokens
                 ELSE [tokens EXCEPT ![Key(r)] = HaltRate]
    /\ pc' = [pc EXCEPT ![r] = "take"]
    /\ UNCHANGED <<throttleDisabled, path, paid, rip, seen, sinceFill, throttledAt, filled,
                   drainedWait, varsQ, varsS>>

\* Take: atomic.LoadInt64(&b.tokens); an empty bucket ends Take with 0 taken.
TakeLoad(r) ==
    /\ pc[r] = "take"
    /\ seen' = [seen EXCEPT ![r] = tokens[Key(r)]]
    /\ pc' = [pc EXCEPT ![r] = IF tokens[Key(r)] = 0 THEN "halted" ELSE "cas"]
    /\ UNCHANGED <<throttleDisabled, path, paid, buckets, tokens, rip, sinceFill, throttledAt,
                   filled, drainedWait, varsQ, varsS>>

\* The request is answered 429 "Throttled", api.go:356-357.
Refuse(r) ==
    /\ pc' = [pc EXCEPT ![r] = "throttled"]
    /\ seen' = [seen EXCEPT ![r] = 0]
    /\ throttledAt' = [throttledAt EXCEPT ![rip[r]] = sinceFill[rip[r]]]
    /\ UNCHANGED sinceFill

\* The request is handed to queryHandler, api.go:359.
PassOn(r) ==
    /\ pc' = [pc EXCEPT ![r] = "next"]
    /\ seen' = [seen EXCEPT ![r] = 0]
    /\ sinceFill' = [sinceFill EXCEPT ![rip[r]] = @ + 1]
    /\ UNCHANGED throttledAt

\* Take: the compare-and-swap; a lost race loads again.  With all HaltCost
\* tokens taken Halt returns false, with fewer it puts them back first.
TakeCas(r) ==
    LET plan == TakePlan(seen[r], HaltCost)
        ip == Key(r)
    IN  /\ pc[r] = "cas"
        /\ IF Swaps(seen[r], tokens[ip])
           THEN IF plan.got = HaltCost
                THEN /\ tokens' = [tokens EXCEPT ![ip] = plan.left]
                     /\ paid' = [paid EXCEPT ![r] = TRUE]
                     /\ IF Passes(FALSE) THEN PassOn(r) ELSE Refuse(r)
                ELSE /\ tokens' = [tokens EXCEPT ![ip] = Put(plan.left, plan.got, HaltRate)]
                     /\ UNCHANGED paid
                     /\ IF Passes(TRUE) THEN PassOn(r) ELSE Refuse(r)
           ELSE /\ pc' = [pc EXCEPT ![r] = "take"]
                /\ UNCHANGED <<tokens, paid, seen, sinceFill, throttledAt>>
        /\ UNCHANGED <<throttleDisabled, buckets, rip, path, filled, drainedWait,
                       varsQ, varsS>>

\* Halt after a Take of 0 from an empty bucket: Put(0), return true.
HaltEmpty(r) ==
    /\ pc[r] = "halted"
    /\ tokens' = [tokens EXCEPT ![Key(r)] = Put(@, 0, HaltRate)]
    /\ IF Passes(TRUE) THEN PassOn(r) ELSE Refuse(r)
    /\ UNCHANGED <<throttleDisabled, path, paid, buckets, rip, filled, drainedWait,
                   varsQ, varsS>>

\* next.ServeHTTP(w, r), api.go:351 and 359, or the handler of a route that
\* is not behind checkLimit: the handler runs (what it does is left out here).
ServeHTTP(r) ==
    /\ pc[r] = "next"
    /\ pc' = [pc EXCEPT ![r] = "served"]
    /\ UNCHANGED <<throttleDisabled, buckets, tokens, rip, path, paid, seen,
                   sinceFill, throttledAt, filled, drainedWait, varsQ, varsS>>

\* The response is written and the request is over.
Finish(r) ==
    /\ pc[r] \in {"served", "throttled"}
    /\ pc' = [pc EXCEPT ![r] = "idle"]
    /\ rip' = [rip EXCEPT ![r] = NoIP]
    /\ path' = [path EXCEPT ![r] = ""]
    /\ paid' = [paid EXCEPT ![r] = FALSE]
    /\ UNCHANGED <<throttleDisabled, buckets, tokens, seen, sinceFill, throttledAt,
                   filled, drainedWait, varsQ, varsS>>

\* A request of ip is inside Halt.
AtBucket(ip) == \E r \in Reqs : Key(r) = ip /\ pc[r] \in {"take", "cas", "halted"}

\* A tick of the throttler's filler, one second after the last, at the bucket
\* of ip: b.Put(b.inc).
Fill(ip) ==
    /\ ip \in buckets
    /\ tokens' = [tokens EXCEPT ![ip] = Put(@, FillInc(HaltRate), HaltRate)]
    /\ sinceFill' = [sinceFill EXCEPT ![ip] = 0]
    /\ throttledAt' = [throttledAt EXCEPT ![ip] = -1]
    /\ filled' = [filled EXCEPT ![ip] = TRUE]
    /\ drainedWait' = [drainedWait EXCEPT ![ip] =
            /\ ~AtBucket(ip)
            /\ \/ tokens[ip] = 0
               \/ drainedWait[ip] /\ sinceFill[ip] = 0 /\ throttledAt[ip] = -1]
    /\ UNCHANGED <<throttleDisabled, path, paid, buckets, pc, rip, seen, varsQ, varsS>>

InitLimit ==
    /\ throttleDisabled \in BOOLEAN
    /\ LimitAtRest
    /\ store = {} /\ req = NoReq /\ sql = NoSql /\ resp = NoResp /\ prev = NoCursor
    /\ received = {}
    /\ StatsAtRest /\ dbEtlds = 0 /\ dbDomains = 0

\* The requests of this specification all come from one IP.
Callers == {"10.0.0.1"}

NextLimit ==
    \/ \E r \in Reqs, ip \in Callers : Arrive(r, ip, "/query")
    \/ \E r \in Reqs : Bypass(r)
    \/ \E r \in Reqs : HaltBucket(r)
    \/ \E r \in Reqs : TakeLoad(r)
    \/ \E r \in Reqs : TakeCas(r)
    \/ \E r \in Reqs : HaltEmpty(r)
    \/ \E r \in Reqs : ServeHTTP(r)
    \/ \E r \in Reqs : Finish(r)
    \/ \E ip \in IPs : Fill(ip)

SpecLimit == InitLimit /\ [][NextLimit]_vars

\* checkLimit with requests from every IP.
InitIsolate ==
    /\ throttleDisabled = FALSE
    /\ LimitAtRest
    /\ store = {} /\ req = NoReq /\ sql = NoSql /\ resp = NoResp /\ prev = NoCursor
    /\ received = {}
    /\ StatsAtRest /\ dbEtlds = 0 /\ dbDomains = 0

NextIsolate ==
    \/ \E r \in Reqs, ip \in IPs : Arrive(r, ip, "/query")
    \/ \E r \in Reqs : HaltBucket(r)
    \/ \E r \in Reqs : TakeLoad(r)
    \/ \E r \in Reqs : TakeCas(r)
    \/ \E r \in Reqs : HaltEmpty(r)
    \/ \E r \in Reqs : ServeHTTP(r)
    \/ \E r \in Reqs : Finish(r)
    \/ \E ip \in IPs : Fill(ip)

SpecIsolate == InitIsolate /\ [][NextIsolate]_vars

\* ------------------------------------------------------------------- stats

\* The scanner adds a row to the table: one more domain, of a known or a new etld.
Scan ==
    /\ dbDomains < MaxCount
    /\ dbDomains' = dbDomains + 1
    /\ dbEtlds' \in {e \in {dbEtlds, dbEtlds + 1} : e >= 1}
    /\ UNCHANGED <<storeUp, etldCount, domainCount, pollPc, tick, etldTick, domainTick,
                   everFailed, tickFailed, lastGood, rdPc, rdFirst, rdAt, statsResp,
                   varsQ, varsT>>

\* db.Get(&dest, ...): the count is scanned into dest, or on failure dest is
\* left as it was and the error is returned.
Get(dest, count, failed) == IF failed THEN dest ELSE count

\* A variant of Logged that ends the process on an error, as log.Fatalf does.
LoggedFatal(failed, nextPc) == IF failed THEN "exit" ELSE nextPc

\* api.go:366 and 370: an error is written to the log with log.Printf, and
\* the loop goes on to nextPc.
Logged(failed, nextPc) == nextPc

\* pollEtldCount, api.go:365-367: the first db.Get of a pass, into etldCount.
PollEtld(failed) ==
    /\ pollPc = "etld"
    /\ etldCount' = Get(etldCount, dbEtlds, failed)
    /\ etldTick' = IF failed THEN etldTick ELSE tick
    /\ everFailed' = (everFailed \/ failed)
    /\ tickFailed' = (tickFailed \/ failed)
    /\ pollPc' = Logged(failed, "domain")
    /\ UNCHANGED <<storeUp, domainCount, dbEtlds, dbDomains, tick, domainTick, lastGood, rdPc,
                   rdFirst, rdAt, statsResp, varsQ, varsT>>

\* pollEtldCount, api.go:369-372: the second db.Get, into domainCount, and
\* then time.Sleep(time.Minute).
PollDomain(failed) ==
    /\ pollPc = "domain"
    /\ domainCount' = Get(domainCount, dbDomains, failed)
    /\ domainTick' = IF failed THEN domainTick ELSE tick
    /\ everFailed' = (everFailed \/ failed)
    /\ tickFailed' = (tickFailed \/ failed)
    /\ lastGood' = IF tickFailed' THEN lastGood ELSE <<domainCount', etldCount>>
    /\ pollPc' = Logged(failed, "sleep")
    /\ UNCHANGED <<storeUp, etldCount, dbEtlds, dbDomains, tick, etldTick, rdPc, rdFirst,
                   rdAt, statsResp, varsQ, varsT>>

\* The sleep is over: the loop of api.go:364 starts its next pass.
Wake ==
    /\ pollPc = "sleep"
    /\ tick < MaxTicks
    /\ tick' = tick + 1
    /\ tickFailed' = FALSE
    /\ pollPc' = "etld"
    /\ UNCHANGED <<storeUp, etldCount, domainCount, dbEtlds, dbDomains, etldTick, domainTick,
                   everFailed, lastGood, rdPc, rdFirst, rdAt, statsResp, varsQ,
                   varsT>>

\* statsHandler, api.go:378-381, reads the two globals one after the other to
\* build the response; Go leaves the order of the two reads to the compiler.
\* StatsRead1: the first read, of domainCount (then rdPc' = "etld") or of
\* etldCount (then rdPc' = "domain").
StatsRead1(ofDomain) ==
    /\ rdPc = "idle"
    /\ rdFirst' = IF ofDomain THEN <<domainCount, domainTick>>
                   ELSE <<etldCount, etldTick>>
    /\ rdAt' = <<tick, pollPc>>
    /\ rdPc' = IF ofDomain THEN "etld" ELSE "domain"
    /\ UNCHANGED <<storeUp, etldCount, domainCount, pollPc, dbEtlds, dbDomains, tick, etldTick,
                   domainTick, everFailed, tickFailed, lastGood, statsResp, varsQ,
                   varsT>>

\* The response of statsHandler.  quiet: both reads fell into one sleep of the
\* loop; failedPass: a db.Get of the pass before that sleep failed; good: the
\* counts of the last pass whose two db.Get both succeeded, as of the read.
statsResponse(d, e) ==
    [domains |-> d[1], etlds |-> e[1], domainTick |-> d[2], etldTick |-> e[2],
     quiet |-> (pollPc = "sleep" /\ rdAt = <<tick, pollPc>>),
     failedPass |-> tickFailed, good |-> lastGood]

\* statsHandler, api.go:378-381: the other global is read and the response is
\* encoded.
StatsRead2 ==
    /\ rdPc \in {"etld", "domain"}
    /\ statsResp' = IF rdPc = "etld"
                     THEN statsResponse(rdFirst, <<etldCount, etldTick>>)
                     ELSE statsResponse(<<domainCount, domainTick>>, rdFirst)
    /\ rdPc' = "idle"
    /\ UNCHANGED <<storeUp, etldCount, domainCount, pollPc, dbEtlds, dbDomains, tick, etldTick,
                   domainTick, everFailed, tickFailed, lastGood, rdFirst, rdAt, varsQ,
                   varsT>>

InitStats ==
    /\ StatsAtRest
    /\ dbDomains \in 0..MaxCount
    /\ dbEtlds \in {e \in 0..dbDomains : dbDomains > 0 => e >= 1}
    /\ store = {} /\ req = NoReq /\ sql = NoSql /\ resp = NoResp /\ prev = NoCursor
    /\ received = {}
    /\ throttleDisabled = FALSE /\ LimitAtRest

NextStats ==
    \/ Scan
    \/ \E failed \in BOOLEAN : PollEtld(failed)
    \/ \E failed \in BOOLEAN : PollDomain(failed)
    \/ Wake
    \/ \E ofDomain \in BOOLEAN : StatsRead1(ofDomain)
    \/ StatsRead2

SpecStats == InitStats /\ [][NextStats]_vars

\* ------------------------------------------------- the store's outages

\* The store stops answering, and answers again.
Outage ==
    /\ storeUp
    /\ storeUp' = FALSE
    /\ UNCHANGED <<etldCount, domainCount, pollPc, dbEtlds, dbDomains, tick, etldTick,
                   domainTick, everFailed, tickFailed, lastGood, rdPc, rdFirst, rdAt,
                   statsResp, varsQ, varsT>>

Recover ==
    /\ ~storeUp
    /\ storeUp' = TRUE
    /\ UNCHANGED <<etldCount, domainCount, pollPc, dbEtlds, dbDomains, tick, etldTick,
                   domainTick, everFailed, tickFailed, lastGood, rdPc, rdFirst, rdAt,
                   statsResp, varsQ, varsT>>

\* pollEtldCount where a db.Get fails exactly when the store is out.
NextRefresh ==
    \/ Scan
    \/ Outage
    \/ Recover
    \/ PollEtld(~storeUp)
    \/ PollDomain(~storeUp)
    \/ Wake

\* The goroutine started at api.go:277 keeps running: each db.Get returns and
\* each sleep ends.
SpecRefresh ==
    /\ InitStats /\ [][NextRefresh]_vars
    /\ WF_vars(PollEtld(~storeUp)) /\ WF_vars(PollDomain(~storeUp)) /\ WF_vars(Wake)

\* ------------------------------------------------- the routes of /api/v1

Routes == {"/query", "/stats"}

\* The table and the filters of the requests that are followed through the
\* routes: one domain, asked for by its name or by a filter that is too short.
OneRow == {Row(1, [firstSeen |-> 1, gap |-> 0, domain |-> abc])}
ServeFilters == {abc, <<"a", "b">>}

\* next.ServeHTTP(w, r) for a /query request: queryHandler runs.
ServeQuery(r) ==
    /\ pc[r] = "next" /\ path[r] = "/query"
    /\ \E q \in ServeFilters, e \in DbErrs : queryHandler(q, Absent, Absent, Absent, e)
    /\ pc' = [pc EXCEPT ![r] = "served"]
    /\ UNCHANGED <<throttleDisabled, buckets, tokens, rip, path, paid, seen,
                   sinceFill, throttledAt, filled, drainedWait, prev, received, varsS>>

\* The handler of a /stats request: statsHandler runs (its two reads are one
\* step here: pollEtldCount does not run in this specification).
ServeStats(r) ==
    /\ pc[r] = "next" /\ path[r] = "/stats"
    /\ statsResp' = statsResponse(<<domainCount, domainTick>>, <<etldCount, etldTick>>)
    /\ pc' = [pc EXCEPT ![r] = "served"]
    /\ UNCHANGED <<throttleDisabled, buckets, tokens, rip, path, paid, seen,
                   sinceFill, throttledAt, filled, drainedWait, varsQ, storeUp, etldCount,
                   domainCount, pollPc, dbEtlds, dbDomains, tick, etldTick,
                   domainTick, everFailed, tickFailed, lastGood, rdPc, rdFirst, rdAt>>

InitServe ==
    /\ throttleDisabled \in BOOLEAN
    /\ LimitAtRest
    /\ store = OneRow
    /\ req = NoReq /\ sql = NoSql /\ resp = NoResp /\ prev = NoCursor
    /\ received = {}
    /\ StatsAtRest /\ dbEtlds = 0 /\ dbDomains = 0

NextServe ==
    \/ \E r \in Reqs, ip \in Callers, p \in Routes : Arrive(r, ip, p)
    \/ \E r \in Reqs : Bypass(r)
    \/ \E r \in Reqs : HaltBucket(r)
    \/ \E r \in Reqs : TakeLoad(r)
    \/ \E r \in Reqs : TakeCas(r)
    \/ \E r \in Reqs : HaltEmpty(r)
    \/ \E r \in Reqs : ServeQuery(r)
    \/ \E r \in Reqs : ServeStats(r)
    \/ \E r \in Reqs : Finish(r)
    \/ \E ip \in IPs : Fill(ip)

SpecServe == InitServe /\ [][NextServe]_vars

\* ------------------------------------------------------- properties, /query

PageIdSet == {resp.results[i].id : i \in 1..Len(resp.results)}

\* The request answered continued from a page, with from_time the first_seen
\* of that page's row of lowest id.
ContinuedFromMinId == prev # NoCursor /\ prev.minFirst

\* C1 as stated: a page that continues from a page, with last_id that page's
\* last and from_time the first_seen of its row of lowest id, holds no row
\* whose id is >= that last.
C1_CursorContinuityAnyStore ==
    (ContinuedFromMinId /\ resp.code = 200) => \A i \in PageIdSet : i < prev.last

\* C1, amended: the same, for a continuation whose last_id and from_time are
\* both positive (a zero is read as an absent cursor part).
C1_CursorContinuity ==
    (ContinuedFromMinId /\ resp.code = 200 /\ req.lastId > 0 /\ req.fromTime > 0)
        => \A i \in PageIdSet : i < prev.last

\* C1, witness: such a continuation returned rows, and the table holds a row
\* of the filter at or before from_time that the id bound kept out.
C1_Witness ==
    /\ ContinuedFromMinId /\ resp.code = 200 /\ req.lastId > 0 /\ req.fromTime > 0
    /\ resp.results # <<>>
    /\ \E r \in store : /\ r.id >= prev.last
                         /\ r.firstSeen <= req.fromTime
                         /\ Like(r.domain, sql.qs)

\* C2: the last of a page that holds a row is the lowest id of its rows.
C2_LastIsMinId ==
    (resp.code = 200 /\ resp.results # <<>>)
        => /\ resp.last \in PageIdSet
           /\ \A i \in PageIdSet : resp.last <= i

\* C2, witness: a page of two rows whose lowest id is not that of its last row.
C2_Witness ==
    /\ resp.code = 200 /\ Len(resp.results) = 2
    /\ resp.results[1].id < resp.results[2].id
    /\ resp.last = resp.results[1].id

\* C3: the rows of a page are in strictly descending order of
\* (firstSeen, lastSeen, id), whatever the cursor.
C3_ResultOrdering ==
    resp.code = 200 =>
        \A i, j \in 1..Len(resp.results) :
            i < j =>
                LET a == resp.results[i]
                    b == resp.results[j]
                IN  \/ a.firstSeen > b.firstSeen
                    \/ a.firstSeen = b.firstSeen /\ a.lastSeen > b.lastSeen
                    \/ a.firstSeen = b.firstSeen /\ a.lastSeen = b.lastSeen /\ a.id > b.id

\* C3, witness: a page under the cursor with both parts whose two rows agree on
\* both times, so that the id decides.
C3_Witness ==
    /\ resp.code = 200 /\ sql.shape = "both" /\ Len(resp.results) = 2
    /\ resp.results[1].firstSeen = resp.results[2].firstSeen
    /\ resp.results[1].lastSeen = resp.results[2].lastSeen
    /\ resp.results[1].id > resp.results[2].id

\* C4 as stated: when the request carries a positive from_time, every row of
\* the page has firstSeen <= from_time, whatever last_id parses to.
C4_FromTimeBound ==
    (resp.code = 200 /\ req.fromTime > 0)
        => \A i \in 1..Len(resp.results) : resp.results[i].firstSeen <= req.fromTime

\* Validation of the filter failed: one of the two messages of api.go:314-317.
InvalidQuery ==
    /\ resp.code = 400
    /\ resp.body \in {"Query too long", "Query must be at least 3 characters"}

NormalLen == Len(ToLower(TrimSpace(req.query)))

\* C9 as stated: a filter whose normalized length is in 3..255 passes
\* validation; one whose normalized length is < 3 or whose raw length is > 255
\* is answered InvalidQuery, and no statement goes to the store.
C9_FilterValidation ==
    resp # NoResp =>
        /\ (NormalLen >= MinQueryLen /\ NormalLen <= MaxQueryLen) => ~InvalidQuery
        /\ (NormalLen < MinQueryLen \/ Len(req.query) > MaxQueryLen)
               => (InvalidQuery /\ sql = NoSql)

\* C10 as stated: a page size <= 0 or > 1000 gives the store a limit of exactly
\* 1000, a size in 1..1000 gives it that size, and no page holds more than
\* 1000 rows.
C10_PageSizeClamp ==
    /\ sql # NoSql =>
          /\ (req.limit <= 0 \/ req.limit > MaxLimit) => sql.limit = MaxLimit
          /\ (req.limit >= 1 /\ req.limit <= MaxLimit) => sql.limit = req.limit
    /\ Len(resp.results) <= MaxLimit


\* ---------------------------------------------------- properties, checkLimit

\* C5: with throttling enabled, of the requests of one IP, however they
\* interleave, no more than the capacity of the bucket are handed on between
\* two fills.
C5_ConcurrentAdmission ==
    ~throttleDisabled => \A ip \in IPs : sinceFill[ip] <= HaltRate

\* C5, witness: two requests of one IP raced for the last token of a bucket
\* not filled since five were handed on; one was handed on and the other lost
\* the compare-and-swap and is about to load again.
C5_Witness ==
    /\ ~throttleDisabled
    /\ \E ip \in IPs, r1, r2 \in Reqs :
          /\ r1 # r2 /\ rip[r1] = ip /\ rip[r2] = ip
          /\ pc[r1] = "next" /\ pc[r2] = "take" /\ seen[r2] = HaltCost
          /\ tokens[ip] = 0 /\ sinceFill[ip] = HaltRate

\* With the throttler in place, a bucket before its first fill hands on at
\* most five requests and throttles none before the fifth was handed on.
FreshBurst ==
    \A ip \in IPs :
        (~throttleDisabled /\ ~filled[ip])
                    => /\ sinceFill[ip] <= HaltRate
                       /\ throttledAt[ip] # -1 => throttledAt[ip] = HaltRate

C7_AtomicSnapshot ==
    (statsResp # NoStats /\ ~everFailed)
        => statsResp.domainTick = statsResp.etldTick

\* C8: a stats response read while pollEtldCount sleeps after a pass in which
\* a db.Get failed carries the counts of the last pass in which both succeeded.
C8_StaleOnFailure ==
    (statsResp # NoStats /\ statsResp.quiet /\ statsResp.failedPass)
        => <<statsResp.domains, statsResp.etlds>> = statsResp.good

\* ------------------------------------------- properties, /query, continued

\* C11: when the store answers the statement of a request with an error,
\* whatever its text, the response is 400 with the body "Query failed :(" and
\* carries no results.
C11_OpaqueStoreFailure ==
    (sql # NoSql /\ sql.err # "")
        => resp = [code |-> 400, body |-> "Query failed :(", results |-> <<>>,
                   last |-> 0]

\* C11, witness: the request ran into its timeout on a table that holds a row
\* of the filter, and was answered 400.
C11_Witness ==
    /\ sql # NoSql /\ sql.err = "context deadline exceeded"
    /\ resp.code = 400
    /\ \E r \in store : Like(r.domain, sql.qs)

\* ------------------------------------------------- the three-domain table

aComAu == <<"a", ".", "c", "o", "m", ".", "a", "u">>
bComAu == <<"b", ".", "c", "o", "m", ".", "a", "u">>
aNetAu == <<"a", ".", "n", "e", "t", ".", "a", "u">>

\* Table domains holding a.com.au (id 1, first seen at 100), b.com.au (id 2,
\* at 200) and a.net.au (id 3, at 200), each last seen then or up to MaxGap later.
ExampleStores ==
    { { Row(1, [firstSeen |-> 100, gap |-> g[1], domain |-> aComAu]),
        Row(2, [firstSeen |-> 200, gap |-> g[2], domain |-> bComAu]),
        Row(3, [firstSeen |-> 200, gap |-> g[3], domain |-> aNetAu]) } :
      g \in [1..3 -> 0..MaxGap] }

\* The filters asked of it: "a.", "a.%", "%a.%", "a.c" and "a.com.au".
aDot == <<"a", ".">>
ExampleFilters ==
    {aDot, aDot \o <<"%">>, <<"%">> \o aDot \o <<"%">>, <<"a", ".", "c">>, aComAu}
ExampleLimits == {Absent, Num(1), Num(10)}

\* A request without cursor to the three-domain table.
Ask ==
    /\ resp = NoResp
    /\ \E q \in ExampleFilters, n \in ExampleLimits, e \in DbErrs :
           queryHandler(q, Absent, Absent, n, e)
    /\ prev' = NoCursor /\ UNCHANGED received
    /\ UNCHANGED <<varsT, varsS>>

InitExample ==
    /\ store \in ExampleStores
    /\ req = NoReq /\ sql = NoSql /\ resp = NoResp /\ prev = NoCursor
    /\ received = {}
    /\ throttleDisabled = FALSE /\ LimitAtRest
    /\ StatsAtRest /\ dbEtlds = 0 /\ dbDomains = 0

NextExample == Ask \/ Done

SpecExample == InitExample /\ [][NextExample]_vars

\* The ids of the rows of the response, in their order.
PageIdSeq == [i \in 1..Len(resp.results) |-> resp.results[i].id]

\* The request answered had no cursor, asked for 10 rows with filter q, and the
\* store did not fail.
Asked10(q) ==
    /\ resp # NoResp /\ req.query = q
    /\ req.fromTime = 0 /\ req.lastId = 0 /\ req.limit = 10
    /\ sql.err = ""

\* C12 as stated: on the three-domain table the filter "a.", without cursor
\* and with limit 10, is answered with a.net.au (3), a.com.au (1) and last 1.
C12_ExampleSubstring ==
    Asked10(aDot) => /\ resp.code = 200
                     /\ PageIdSeq = <<3, 1>>
                     /\ resp.last = 1

\* C12, amended: the filter "%a.%" is answered so.
C12_ExamplePattern ==
    Asked10(<<"%">> \o aDot \o <<"%">>) => /\ resp.code = 200
                                             /\ PageIdSeq = <<3, 1>>
                                             /\ resp.last = 1

\* C12, witness: the filter "%a.%" was answered with two rows.
C12_Witness ==
    /\ Asked10(<<"%">> \o aDot \o <<"%">>)
    /\ resp.code = 200 /\ Len(resp.results) = 2
    /\ resp.results[1].domain = aNetAu /\ resp.results[2].domain = aComAu

\* ------------------------------------------------- properties, the routes

\* C13: with throttling disabled no request is throttled, none takes a token,
\* none is inside Halt and no bucket exists; and with or without throttling a
\* /stats request is not throttled and takes no token.
C13_BypassAndStats ==
    /\ throttleDisabled =>
          /\ buckets = {}
          /\ \A r \in Reqs : /\ pc[r] \notin {"take", "cas", "halted", "throttled"}
                              /\ ~paid[r]
    /\ \A r \in Reqs : path[r] = "/stats" => pc[r] # "throttled" /\ ~paid[r]

\* C13, witness: with throttling disabled more requests of one IP than a bucket
\* holds tokens were handed on, one of them is answered 200 by queryHandler,
\* and a /stats request is answered.
C13_Witness ==
    /\ throttleDisabled
    /\ \E r1, r2 \in Reqs :
          /\ pc[r1] = "served" /\ path[r1] = "/query"
          /\ sinceFill[rip[r1]] > HaltRate /\ resp.code = 200
          /\ pc[r2] = "served" /\ path[r2] = "/stats" /\ statsResp # NoStats

\* A /query request that queryHandler has answered took a token before.
ServedPaid ==
    \A r \in Reqs : (pc[r] = "served" /\ path[r] = "/query") => paid[r]

\* A throttled request goes nowhere but to its end, and a step that sends a
\* statement to the store is the step of queryHandler for a request that was
\* handed on.
ThrottledEnds ==
    /\ \A r \in Reqs : pc[r] = "throttled" => pc'[r] \in {"throttled", "idle"}
    /\ sql' # sql => \E r \in Reqs : /\ pc[r] = "next" /\ pc'[r] = "served"
                                      /\ path[r] = "/query"
                                      /\ (throttleDisabled \/ paid[r])

\* C16: with throttling enabled, a request answered 429 never reaches
\* queryHandler, and queryHandler runs (and a statement goes to the store)
\* only for a request that took its token.
C16_AdmissionPrecedesQuery ==
    /\ [](~throttleDisabled => ServedPaid)
    /\ [][ThrottledEnds]_vars

\* C16, witness: of two /query requests of one IP at an empty bucket, one was
\* throttled and the other, having taken a token, got its rows from the store.
C16_Witness ==
    /\ ~throttleDisabled
    /\ \E r1, r2 \in Reqs :
          /\ pc[r1] = "throttled" /\ path[r1] = "/query"
          /\ rip[r1] = rip[r2] /\ tokens[rip[r1]] = 0
          /\ pc[r2] = "served" /\ path[r2] = "/query" /\ paid[r2]
          /\ sql # NoSql /\ resp.code = 200

\* ------------------------------------------ properties, paging to the end

\* C14: once the caller paging to the end is sent an empty page, every row of
\* the table that its filter matches has been on one of its pages.
C14_PaginationComplete ==
    (resp.code = 200 /\ resp.results = <<>>)
        => \A r \in store : Like(r.domain, sql.qs) => r.id \in received

\* The page answered continues from a page that held rows, with a positive
\* from_time, and holds rows itself.
ChainedPage ==
    /\ prev # NoCursor /\ resp.code = 200 /\ resp.results # <<>>
    /\ req.fromTime > 0

\* C15 as stated: along a chain of requests, each with last_id the last of the
\* page before and a positive from_time, the last of a page that holds rows is
\* below the last of the page before.
C15_LastDecreasesAnyLast == ChainedPage => resp.last < prev.last

\* C15, amended: the same, where the last handed back is positive.
C15_LastDecreases == (ChainedPage /\ prev.last > 0) => resp.last < prev.last

\* C15, witness: a page of such a chain holds a row, and its last is below
\* the positive last it continued from.
C15_Witness ==
    /\ ChainedPage /\ prev.last > 0 /\ req.lastId = prev.last
    /\ resp.last < prev.last

\* ------------------------------------------ properties, the refresh loop

\* Both db.Get of pass t are over and the loop sleeps.
PassDone(t) == tick = t /\ pollPc = "sleep"

\* The two counts are those of the current pass, whose db.Get both succeeded.
Fresh == pollPc = "sleep" /\ ~tickFailed /\ etldTick = tick /\ domainTick = tick

\* C17: whatever the outcome of a pass, the next pass runs its two db.Get
\* (for the passes the model follows); and when the store answers again after
\* a pass with a failure, the counts are replaced by those of a later pass,
\* unless the store goes out again before.
C17_RefreshLiveness ==
    /\ \A t \in 1..(MaxTicks - 1) : PassDone(t) ~> PassDone(t + 1)
    /\ (storeUp /\ tickFailed /\ pollPc = "sleep" /\ tick < MaxTicks)
           ~> (Fresh \/ ~storeUp)

\* C17, witness: after a pass with a failed db.Get the store answers again and
\* a later pass has stored both counts, as the store now holds them.
C17_Witness ==
    /\ everFailed /\ storeUp /\ Fresh
    /\ dbDomains > 0 /\ domainCount = dbDomains /\ etldCount = dbEtlds

\* --------------------------------------------- properties, the isolation

\* What checkLimit holds for ip: its bucket, and the count of its requests
\* handed on and throttled since the last fill.
BucketOf(ip) == <<ip \in buckets, tokens[ip], sinceFill[ip], throttledAt[ip]>>

\* The IP of request r over a step (a request arriving gets its IP then).
StepIP(r) == IF pc[r] = "idle" THEN rip'[r] ELSE rip[r]

\* A step of a request leaves what checkLimit holds for every other IP as it is.
OthersUntouched ==
    \A r \in Reqs : pc'[r] # pc[r] =>
        \A ip \in IPs \ {StepIP(r)} : BucketOf(ip)' = BucketOf(ip)

\* The requests of an IP handed on since the last fill are exactly the tokens
\* missing from its own bucket.
OwnTokensOnly ==
    \A ip \in buckets : tokens[ip] + sinceFill[ip] = HaltRate

\* C18: the requests of an IP are admitted against the tokens of that IP's
\* bucket alone, and a request of another IP changes neither that bucket nor
\* the count of what was admitted from it.
C18_PerIPIsolation == []OwnTokensOnly /\ [][OthersUntouched]_vars

\* C18, witness: a request of one IP is throttled at its empty bucket while a
\* request of another IP has taken a token from a bucket that still holds some.
C18_Witness ==
    \E r1, r2 \in Reqs :
        /\ pc[r1] = "throttled" /\ pc[r2] = "served" /\ paid[r2]
        /\ rip[r1] # rip[r2]
        /\ tokens[rip[r1]] = 0 /\ tokens[rip[r2]] > 0

\* ------------------------------------------ properties, the empty page

\* C19: a page without rows is answered 200 with last the highest value of
\* the unsigned word, ^uint64(0).
C19_EmptyPageCursor ==
    (resp.code = 200 /\ resp.results = <<>>) => resp.last = MaxUint

\* C19, witness: a filter that passes the length checks matched no row of a
\* table that holds rows, and the page is empty with last all ones.
C19_Witness ==
    /\ resp.code = 200 /\ resp.results = <<>> /\ resp.last = 2^WordBits - 1
    /\ sql # NoSql /\ sql.err = "" /\ store # {}

====
